---------------------------- MODULE Spec2Model ----------------------------
(***************************************************************************)
(* Silver layer load (scripts/silver/load_silver_layer.py).                *)
(*                                                                         *)
(* The script reads six bronze tables, cleanses each one in memory and     *)
(* reloads the matching silver table (TRUNCATE, then DataFrame.to_sql).    *)
(* Each load_* function is one handler wrapped in try/except Exception;    *)
(* main calls the six of them in a fixed order.                            *)
(*                                                                         *)
(* Values.  A nullable cell is None (<<>>, pandas NaN/NaT/NULL) or <<v>>.  *)
(* Text is a tuple of one-character strings, so that upper(), strip(),     *)
(* slicing and prefix tests are computed and not assumed.  A date is a     *)
(* day number (days since 1970-01-01); a raw date cell is a civil triple   *)
(* <<y, m, d>> that pd.to_datetime(errors='coerce') either converts or     *)
(* turns into NaT.                                                         *)
(*                                                                         *)
(* Columns that none of the checked properties reads (names, marital       *)
(* status, product cost and line, the three sales dates, country, the      *)
(* category attributes and load_timestamp) are left out of the rows.       *)
(***************************************************************************)
EXTENDS Integers, Sequences, FiniteSets, TLC

VARIABLES
    bronze,        \* raw zone: table name -> sequence of raw rows
    silver,        \* cleansed zone: table name -> [ddl, rows]
    storage,       \* "up" | "flaky" | "down": how the SQL Server answers
    today,         \* the calendar day pd.Timestamp.now().date() returns
    pc,            \* position of the script: "import", a table name, ...
    run,           \* "first" | "second" execution of the script
    invoked,       \* the load_* functions main has called in this run
    failed,        \* tables whose handler printed "Failed loading"
    outcome,       \* "none" | "completed" | "raised": how main ended
    connected,     \* whether the module-level fetch succeeded
    product_info,  \* the product DataFrame (with its index) after cleaning
    first          \* what the first run left behind (history)

vars == <<bronze, silver, storage, today, pc, run, invoked, failed,
          outcome, connected, product_info, first>>

---------------------------------------------------------------------------
(* Bounds of the model.                                                    *)

MaxRows == 2

MaxSalesRows == 1

MaxTicks == 1

---------------------------------------------------------------------------
(* Nullable cells and text.                                                *)

None == <<>>

Some(v) == <<v>>

isna(c) == c = None

LowerCase ==
    <<"a","b","c","d","e","f","g","h","i","j","k","l","m",
      "n","o","p","q","r","s","t","u","v","w","x","y","z">>

UpperCase ==
    <<"A","B","C","D","E","F","G","H","I","J","K","L","M",
      "N","O","P","Q","R","S","T","U","V","W","X","Y","Z">>

\* Characters in ASCII order, for the comparison of keys when sorting.
Alphabet == <<" ", "-", "0", "1", "2", "3", "4", "5", "6", "7", "8", "9">>
            \o UpperCase \o <<"_">> \o LowerCase

Ord(c) == CHOOSE i \in 1..Len(Alphabet) : Alphabet[i] = c

UpperChar(c) ==
    IF \E i \in 1..26 : LowerCase[i] = c
    THEN UpperCase[CHOOSE i \in 1..26 : LowerCase[i] = c]
    ELSE c

\* The Series.str methods below act on one cell; a null cell stays null.

\* Series.str.upper()
str_upper(c) ==
    IF isna(c) THEN c ELSE Some([i \in 1..Len(c[1]) |-> UpperChar(c[1][i])])

\* Series.str.strip()
str_strip(c) ==
    IF isna(c) THEN c
    ELSE LET s    == c[1]
             keep == {i \in 1..Len(s) : s[i] # " "}
         IN  IF keep = {} THEN Some(<<>>)
             ELSE LET lo == CHOOSE i \in keep : \A j \in keep : i <= j
                      hi == CHOOSE i \in keep : \A j \in keep : j <= i
                  IN  Some(SubSeq(s, lo, hi))

\* Series.str[a:] (a is the 0-based start)
str_from(c, a) == IF isna(c) THEN c ELSE Some(SubSeq(c[1], a + 1, Len(c[1])))

\* Series.str[:b]
str_to(c, b) ==
    IF isna(c) THEN c
    ELSE Some(SubSeq(c[1], 1, IF b < Len(c[1]) THEN b ELSE Len(c[1])))

\* Series.str.startswith(p): a null cell gives NaN, which np.where reads as
\* true
str_startswith(c, p) ==
    isna(c) \/ (Len(c[1]) >= Len(p) /\ SubSeq(c[1], 1, Len(p)) = p)

\* Series.str.replace(a, b, regex=False) for one-character a and b
str_replace(c, a, b) ==
    IF isna(c) THEN c
    ELSE Some([i \in 1..Len(c[1]) |-> IF c[1][i] = a THEN b ELSE c[1][i]])

\* Series.str.replace(a, '', regex=False) for a one-character a
str_remove(c, a) ==
    IF isna(c) THEN c ELSE Some(SelectSeq(c[1], LAMBDA ch : ch # a))

\* Lexicographic order on text, as sort_values orders string keys
StrLess(a, b) ==
    \E k \in 1..(Len(b)) :
        /\ \A i \in 1..(k - 1) : i <= Len(a) /\ a[i] = b[i]
        /\ \/ k = Len(a) + 1
           \/ k <= Len(a) /\ Ord(a[k]) < Ord(b[k])

---------------------------------------------------------------------------
(* Dates.                                                                  *)

NaT == None

IsLeap(y) == (y % 4 = 0 /\ y % 100 # 0) \/ y % 400 = 0

DaysInMonth(y, m) ==
    IF m = 2 THEN (IF IsLeap(y) THEN 29 ELSE 28)
    ELSE IF m \in {4, 6, 9, 11} THEN 30 ELSE 31

\* Day number of a civil date (proleptic Gregorian, 1970-01-01 is day 0)
DayNumber(y, m, d) ==
    LET yy  == IF m <= 2 THEN y - 1 ELSE y
        era == yy \div 400
        yoe == yy - era * 400
        mp  == (m + 9) % 12
        doy == (153 * mp + 2) \div 5 + d - 1
        doe == yoe * 365 + yoe \div 4 - yoe \div 100 + doy
    IN  era * 146097 + doe - 719468

\* pd.to_datetime(cell, errors='coerce').dt.date: NULL and anything that is
\* no calendar date become NaT.
to_datetime(c) ==
    IF isna(c) THEN NaT
    ELSE LET y == c[1][1]
             m == c[1][2]
             d == c[1][3]
         IN  IF y \in 1678..2261 /\ m \in 1..12 /\ d \in 1..DaysInMonth(y, m)
             THEN Some(DayNumber(y, m, d))
             ELSE NaT

\* cell - pd.Timedelta(days=1); NaN - Timedelta is NaT
minus_one_day(c) == IF isna(c) THEN NaT ELSE Some(c[1] - 1)

---------------------------------------------------------------------------
(* DataFrame helpers.                                                      *)

\* The rows of f whose positions are in K, in their order in f
Pick(f, K) ==
    [k \in 1..Cardinality(K) |->
        f[CHOOSE i \in K : Cardinality({j \in K : j <= i}) = k]]

\* DataFrame.dropna(subset=[key])
dropna(f, key) == SelectSeq(f, LAMBDA r : ~isna(r[key]))

\* DataFrame.drop_duplicates(subset=key, keep='first')
drop_duplicates(f, key) ==
    Pick(f, {i \in 1..Len(f) : \A j \in 1..(i - 1) : f[j][key] # f[i][key]})

\* Series.fillna(v) on one cell
fillna(c, v) == IF isna(c) THEN Some(v) ELSE c

\* Series.replace({...}) on one cell: only an exact match is replaced
replace(c, table) ==
    IF isna(c) THEN c
    ELSE IF c[1] \in DOMAIN table THEN Some(table[c[1]]) ELSE c

---------------------------------------------------------------------------
(* Canonical labels and lookup tables.                                     *)

Male == <<"M", "a", "l", "e">>

Female == <<"F", "e", "m", "a", "l", "e">>

Unknown == <<"U", "n", "k", "n", "o", "w", "n">>

\* the dictionary of load_crm_customer_info's gender replace
crm_gender_map ==
    (<<"M">> :> Male) @@ (<<"M", "A", "L", "E">> :> Male) @@
    (<<"F">> :> Female) @@ (<<"F", "E", "M", "A", "L", "E">> :> Female)

\* the dictionary of load_erp_customer_az12's gender replace
erp_gender_map ==
    crm_gender_map @@
    (<<"U", "N", "K", "N", "O", "W", "N">> :> Unknown) @@ (<<>> :> Unknown)

---------------------------------------------------------------------------
(* crm_customer_info                                                       *)

\* CustomerBefore with the create date ascending too (ascending=True)
CustomerBeforeAscending(a, b) ==
    \/ a.cust_id[1] < b.cust_id[1]
    \/ /\ a.cust_id = b.cust_id
       /\ ~isna(a.cst_create_date)
       /\ (isna(b.cst_create_date) \/ a.cst_create_date[1] < b.cst_create_date[1])

\* sort_values(by=['cust_id','cst_create_date'], ascending=[True, False]);
\* na_position='last' keeps NaT after every date whatever the direction.
CustomerBefore(a, b) ==
    \/ a.cust_id[1] < b.cust_id[1]
    \/ /\ a.cust_id = b.cust_id
       /\ ~isna(a.cst_create_date)
       /\ (isna(b.cst_create_date) \/ a.cst_create_date[1] > b.cst_create_date[1])

\* the rank of row i of f in the stable sort by CustomerBefore
CustomerRank(f, i) ==
    Cardinality({j \in 1..Len(f) :
        \/ CustomerBefore(f[j], f[i])
        \/ (~CustomerBefore(f[i], f[j]) /\ j < i)}) + 1

\* .sort_values(by=['cust_id', 'cst_create_date'], ascending=[True, False])
sort_customers(f) ==
    [k \in 1..Len(f) |-> f[CHOOSE i \in 1..Len(f) : CustomerRank(f, i) = k]]

\* dedup_customers with the drop_duplicates call left out
dedup_customers_kept(f) == f

\* .drop_duplicates(subset='cust_id', keep='first')
dedup_customers(f) == drop_duplicates(f, "cust_id")

\* .str.upper().str.strip().replace({...}).fillna('Unknown')
clean_cst_gndr(c) == fillna(replace(str_strip(str_upper(c)), crm_gender_map), Unknown)

\* the cleaning steps of load_crm_customer_info, from the fetched frame to the
\* frame handed to to_sql
clean_crm_customer_info(f) ==
    LET keyed  == dropna(f, "cust_id")
        dated  == [i \in 1..Len(keyed) |->
                     [keyed[i] EXCEPT !.cst_create_date = to_datetime(@)]]
        sorted == sort_customers(dated)
        dedup  == dedup_customers(sorted)
    IN  [i \in 1..Len(dedup) |-> [dedup[i] EXCEPT !.cst_gndr = clean_cst_gndr(@)]]

---------------------------------------------------------------------------
(* crm_product_info                                                        *)

\* sort_values(['prd_key', 'prd_start_dt']): ascending, NaT last
ProductBefore(a, b) ==
    \/ StrLess(a.prd_key[1], b.prd_key[1])
    \/ /\ a.prd_key = b.prd_key
       /\ ~isna(a.prd_start_dt)
       /\ (isna(b.prd_start_dt) \/ a.prd_start_dt[1] < b.prd_start_dt[1])

\* the rank of row i of f in the stable sort by ProductBefore
ProductRank(f, i) ==
    Cardinality({j \in 1..Len(f) :
        \/ ProductBefore(f[j], f[i])
        \/ (~ProductBefore(f[i], f[j]) /\ j < i)}) + 1

\* .sort_values(['prd_key', 'prd_start_dt'])
sort_products(f) ==
    [k \in 1..Len(f) |-> f[CHOOSE i \in 1..Len(f) : ProductRank(f, i) = k]]

\* shift_next_start with the groupby left out: the next row, whatever its key
shift_next_row(f, i) == IF i < Len(f) THEN f[i + 1].prd_start_dt ELSE NaT

\* groupby('prd_key')['prd_start_dt'].shift(-1) at row i: the start date of
\* the next row of the frame that has the same prd_key, NaN when none
shift_next_start(f, i) ==
    LET later == {j \in (i + 1)..Len(f) : f[j].prd_key = f[i].prd_key}
    IN  IF later = {} THEN NaT
        ELSE f[CHOOSE j \in later : \A k \in later : j <= k].prd_start_dt

\* prd_key.str[:5].str.replace('-', '_')
category_id(key) == str_replace(str_to(key, 5), "-", "_")

\* prd_key.str[6:]
product_code(key) == str_from(key, 6)

\* the cleaning steps of load_crm_product_info; idx is the DataFrame index
\* (the row's position in the fetched frame), which is never reset
clean_crm_product_info(f) ==
    LET indexed == [i \in 1..Len(f) |->
                      [idx |-> i, prd_key |-> f[i].prd_key, category_id |-> None,
                       prd_start_dt |-> f[i].prd_start_dt,
                       prd_end_dt |-> f[i].prd_end_dt]]
        keyed   == dropna(indexed, "prd_key")
        dated   == [i \in 1..Len(keyed) |->
                      [keyed[i] EXCEPT !.prd_start_dt = to_datetime(@),
                                       !.prd_end_dt = to_datetime(@)]]
        sorted  == sort_products(dated)
        ended   == [i \in 1..Len(sorted) |->
                      [sorted[i] EXCEPT
                         !.prd_end_dt = minus_one_day(shift_next_start(sorted, i))]]
    IN  [i \in 1..Len(ended) |->
           [ended[i] EXCEPT !.category_id = category_id(ended[i].prd_key),
                            !.prd_key = product_code(@)]]

\* to_sql(index=False): the index is not written
without_index(f) ==
    [i \in 1..Len(f) |->
       [prd_key |-> f[i].prd_key, category_id |-> f[i].category_id,
        prd_start_dt |-> f[i].prd_start_dt, prd_end_dt |-> f[i].prd_end_dt]]

---------------------------------------------------------------------------
(* crm_sales_details                                                       *)

Abs(n) == IF n < 0 THEN -n ELSE n

\* a / b of two numbers, b # 0.  Every quotient the cleaning takes is of
\* quantity * |price| by quantity, so it is exact.
truediv(a, b) ==
    LET q == Abs(a) \div Abs(b)
    IN  IF (a < 0) = (b < 0) THEN q ELSE -q

\* calc_sales with the .abs() forgotten
calc_sales_signed(r) == fillna(r.sls_quantity, 0)[1] * fillna(r.sls_price, 0)[1]

\* sls_quantity.fillna(0) * sls_price.fillna(0).abs()
calc_sales(r) == fillna(r.sls_quantity, 0)[1] * Abs(fillna(r.sls_price, 0)[1])

\* isna | (sls_sales <= 0) | (sls_sales != calc_sales)
sales_condition(r) ==
    \/ isna(r.sls_sales)
    \/ r.sls_sales[1] <= 0
    \/ r.sls_sales[1] # calc_sales(r)

\* isna | (sls_price <= 0)
price_condition(r) == isna(r.sls_price) \/ r.sls_price[1] <= 0

\* sls_sales / sls_quantity.replace(0, np.nan), on the reconciled sls_sales
calc_price(sales, quantity) ==
    IF isna(sales) \/ isna(quantity) \/ quantity = Some(0) THEN None
    ELSE Some(truediv(sales[1], quantity[1]))

\* the reconciliation of one row of load_crm_sales_details
clean_sales_row(r) ==
    LET sales == IF sales_condition(r) THEN Some(calc_sales(r)) ELSE r.sls_sales
        price == IF price_condition(r) THEN calc_price(sales, r.sls_quantity)
                 ELSE r.sls_price
    IN  [r EXCEPT !.sls_sales = fillna(sales, 0), !.sls_price = fillna(price, 0)]

clean_crm_sales_details(f) == [i \in 1..Len(f) |-> clean_sales_row(f[i])]

---------------------------------------------------------------------------
(* erp_customer_az12, erp_location_a101, erp_product_category              *)

NAS == <<"N", "A", "S">>

\* np.where(cid.str.startswith('NAS'), cid.str[3:], cid)
clean_az12_cid(c) == IF str_startswith(c, NAS) THEN str_from(c, 3) ELSE c

\* bdate > today becomes NaT (a comparison with NaT is False)
drop_future(c, now) == IF ~isna(c) /\ c[1] > now THEN NaT ELSE c

\* .str.strip().str.upper().replace({...}).fillna('Unknown')
clean_gen(c) == fillna(replace(str_upper(str_strip(c)), erp_gender_map), Unknown)

\* the cleaning steps of load_erp_customer_az12
clean_erp_customer_az12(f, now) ==
    LET dedup == drop_duplicates(dropna(f, "cid"), "cid")
    IN  [i \in 1..Len(dedup) |->
           [cid   |-> clean_az12_cid(dedup[i].cid),
            bdate |-> drop_future(to_datetime(dedup[i].bdate), now),
            gen   |-> clean_gen(dedup[i].gen)]]

\* the cleaning steps of load_erp_location_a101
clean_erp_location_a101(f) ==
    LET dedup == drop_duplicates(dropna(f, "cid"), "cid")
    IN  [i \in 1..Len(dedup) |->
           [cid |-> str_remove(dedup[i].cid, "-")]]

\* load_erp_product_category only inspects the frame (duplicated().sum(),
\* isnull().sum()) and loads it as fetched
clean_erp_product_category(f) == f

---------------------------------------------------------------------------
(* The raw zone the runs are checked on.                                   *)

SeqUpTo(S, n) == UNION {[1..k -> S] : k \in 0..n}

Jan2024 == Some(<<2024, 1, 1>>)

Jun2024 == Some(<<2024, 6, 1>>)

\* a cell that is no calendar date (month 13)
Unparsable == Some(<<2024, 13, 1>>)

GenderCells ==
    {None, Some(<<"m">>), Some(<<"M", "A", "L", "E">>), Some(<<" ", "F", " ">>),
     Some(<<"x">>), Some(<<>>)}

CustomerRows ==
    [cust_id : {None, Some(1), Some(2)},
     cst_create_date : {None, Jan2024, Jun2024},
     cst_gndr : {Some(<<"m">>)}]
    \cup [cust_id : {Some(1)}, cst_create_date : {Unparsable}, cst_gndr : {Some(<<"m">>)}]
    \cup [cust_id : {Some(1)}, cst_create_date : {Jan2024}, cst_gndr : GenderCells]

KeyAABB == <<"A", "A", "-", "B", "B", "-", "K", "1">>

KeyCCDD == <<"C", "C", "-", "D", "D", "-", "K", "1">>

ProductRows ==
    [prd_key : {None, Some(KeyAABB), Some(KeyCCDD)},
     prd_start_dt : {None, Some(<<2021, 1, 1>>), Some(<<2022, 1, 1>>)},
     prd_end_dt : {None}]
    \cup [prd_key : {Some(KeyAABB)},
          prd_start_dt : {None, Some(<<2021, 1, 1>>), Some(<<2022, 1, 1>>)},
          prd_end_dt : {Some(<<2030, 1, 1>>)}]

SalesRows ==
    [sls_quantity : {None, Some(0), Some(2), Some(-2)},
     sls_price : {None, Some(0), Some(10), Some(-5)},
     sls_sales : {None, Some(0), Some(20)}]

\* the day the first run starts on
StartDay == DayNumber(2026, 11, 6)

Born1990 == Some(<<1990, 5, 17>>)

\* a birth date one day after the start day
BornTomorrow == Some(<<2026, 11, 7>>)

Az12Rows ==
    [cid : {None, Some(<<"N", "A", "S", "1">>), Some(<<"1">>)},
     bdate : {Born1990, BornTomorrow},
     gen : {Some(<<"m">>)}]
    \cup [cid : {Some(<<"1">>)}, bdate : {None}, gen : {Some(<<"m">>)}]
    \cup [cid : {Some(<<"1">>)}, bdate : {Born1990}, gen : GenderCells]

LocationRows == [cid : {None, Some(<<"A", "-", "1">>), Some(<<"A", "1">>)}]

CategoryRows ==
    [id : {None, Some(<<"A", "A", "_", "B", "B">>), Some(<<"C", "C", "_", "D", "D">>)}]

\* the load order of main
Order ==
    <<"crm_customer_info", "crm_product_info", "crm_sales_details",
      "erp_customer_az12", "erp_location_a101", "erp_product_category">>

Tables == {Order[i] : i \in 1..Len(Order)}

\* a small raw zone with one case of each rule
SampleZone ==
    [crm_customer_info |->
        <<[cust_id |-> Some(1), cst_create_date |-> Jan2024, cst_gndr |-> Some(<<"m">>)],
          [cust_id |-> Some(1), cst_create_date |-> Jun2024,
           cst_gndr |-> Some(<<" ", "F", " ">>)]>>,
     crm_product_info |->
        <<[prd_key |-> Some(KeyAABB), prd_start_dt |-> Some(<<2021, 1, 1>>),
           prd_end_dt |-> None],
          [prd_key |-> Some(KeyAABB), prd_start_dt |-> Some(<<2022, 1, 1>>),
           prd_end_dt |-> None]>>,
     crm_sales_details |->
        <<[sls_quantity |-> Some(2), sls_price |-> Some(10), sls_sales |-> Some(15)]>>,
     erp_customer_az12 |->
        <<[cid |-> Some(<<"N", "A", "S", "1">>), bdate |-> Born1990,
           gen |-> Some(<<"M", "A", "L", "E">>)]>>,
     erp_location_a101 |-> <<[cid |-> Some(<<"A", "-", "1">>)]>>,
     erp_product_category |-> <<[id |-> Some(<<"A", "A", "_", "B", "B">>)]>>]

\* the raw zones with one table drawn freely and the others as in SampleZone
DataZones ==
    {[SampleZone EXCEPT !.crm_customer_info = f] : f \in SeqUpTo(CustomerRows, MaxRows)}
    \cup {[SampleZone EXCEPT !.crm_product_info = f] : f \in SeqUpTo(ProductRows, MaxRows)}
    \cup {[SampleZone EXCEPT !.crm_sales_details = f] : f \in SeqUpTo(SalesRows, MaxSalesRows)}
    \cup {[SampleZone EXCEPT !.erp_customer_az12 = f] : f \in SeqUpTo(Az12Rows, MaxRows)}
    \cup {[SampleZone EXCEPT !.erp_location_a101 = f] : f \in SeqUpTo(LocationRows, MaxRows)}
    \cup {[SampleZone EXCEPT !.erp_product_category = f] : f \in SeqUpTo(CategoryRows, MaxRows)}

---------------------------------------------------------------------------
(* The cleansed zone and the loader.                                       *)

\* a silver table as its DDL script created it, before any load
EmptyTable == [ddl |-> "declared", rows |-> <<>>]

\* truncate with the TRUNCATE statement left out
truncate_nothing(t) == t

\* TRUNCATE TABLE silver.<name>
truncate(t) == [t EXCEPT !.rows = <<>>]

\* DataFrame.to_sql(..., if_exists='append'): one transaction
to_sql_append(t, batch) == [t EXCEPT !.rows = @ \o batch]

\* DataFrame.to_sql(..., if_exists='replace'): drops the table and creates it
\* again from the frame's dtypes before inserting
to_sql_replace(t, batch) == [ddl |-> "pandas", rows |-> batch]

to_sql(t, batch, if_exists) ==
    IF if_exists = "replace" THEN to_sql_replace(t, batch) ELSE to_sql_append(t, batch)

\* the record set each load_* function hands to to_sql
Cleansed(name, raw, now) ==
    CASE name = "crm_customer_info" -> clean_crm_customer_info(raw.crm_customer_info)
      [] name = "crm_product_info" ->
            without_index(clean_crm_product_info(raw.crm_product_info))
      [] name = "crm_sales_details" -> clean_crm_sales_details(raw.crm_sales_details)
      [] name = "erp_customer_az12" ->
            clean_erp_customer_az12(raw.erp_customer_az12, now)
      [] name = "erp_location_a101" -> clean_erp_location_a101(raw.erp_location_a101)
      [] name = "erp_product_category" ->
            clean_erp_product_category(raw.erp_product_category)

---------------------------------------------------------------------------
(* The script.                                                             *)

Init ==
    /\ \/ bronze \in DataZones /\ storage = "up"
       \/ bronze = SampleZone /\ storage \in {"flaky", "down"}
    /\ silver = [n \in Tables |-> EmptyTable]
    /\ today = StartDay
    /\ pc = "import"
    /\ run = "first"
    /\ invoked = <<>>
    /\ failed = {}
    /\ outcome = "none"
    /\ connected = FALSE
    /\ product_info = <<>>
    /\ first = [silver |-> [n \in Tables |-> EmptyTable], failed |-> {},
                today |-> StartDay]

\* the module-level try block: the six reads at import, any failure printed
module_fetch ==
    /\ pc = "import"
    /\ \/ storage \in {"up", "flaky"} /\ connected' = TRUE
       \/ storage \in {"flaky", "down"} /\ connected' = FALSE
    /\ pc' = Order[1]
    /\ invoked' = <<>>
    /\ failed' = {}
    /\ outcome' = "none"
    /\ UNCHANGED <<bronze, silver, storage, today, run, product_info, first>>

\* Caught for a handler that prints and raises again
Reraised == FALSE

\* `except Exception as e: print(...)` of a load_* function: the exception
\* ends there
Caught == TRUE

\* where main goes after load_<name> returned, or after it raised
AfterLoad(name, raised) ==
    IF raised /\ ~Caught THEN "except"
    ELSE LET i == CHOOSE k \in 1..Len(Order) : Order[k] = name
         IN  IF i = Len(Order) THEN "end" ELSE Order[i + 1]

\* The body shared by the six load_* functions: read_sql, the cleaning,
\* TRUNCATE in its own transaction, to_sql, all inside one try.
load(name, if_exists) ==
    /\ pc = name
    /\ invoked' = Append(invoked, name)
    /\ \/ /\ storage \in {"flaky", "down"}       \* pd.read_sql raises
          /\ failed' = failed \cup {name}
          /\ pc' = AfterLoad(name, TRUE)
          /\ UNCHANGED silver
       \/ /\ storage = "flaky"                    \* TRUNCATE raises
          /\ failed' = failed \cup {name}
          /\ pc' = AfterLoad(name, TRUE)
          /\ UNCHANGED silver
       \/ /\ storage = "flaky"                    \* to_sql raises, rolled back
          /\ failed' = failed \cup {name}
          /\ pc' = AfterLoad(name, TRUE)
          /\ silver' = [silver EXCEPT ![name] = truncate(@)]
       \/ /\ storage \in {"up", "flaky"}          \* loaded
          /\ failed' = failed
          /\ pc' = AfterLoad(name, FALSE)
          /\ silver' = [silver EXCEPT
                          ![name] = to_sql(truncate(@), Cleansed(name, bronze, today),
                                           if_exists)]
    /\ UNCHANGED <<bronze, storage, today, run, outcome, connected, first>>

load_crm_customer_info ==
    load("crm_customer_info", "append") /\ UNCHANGED product_info

load_crm_product_info ==
    /\ load("crm_product_info", "append")
    /\ product_info' = IF "crm_product_info" \in failed' THEN product_info
                       ELSE clean_crm_product_info(bronze.crm_product_info)

load_crm_sales_details ==
    load("crm_sales_details", "append") /\ UNCHANGED product_info

load_erp_customer_az12 ==
    load("erp_customer_az12", "replace") /\ UNCHANGED product_info

load_erp_location_a101 ==
    load("erp_location_a101", "append") /\ UNCHANGED product_info

load_erp_product_category ==
    load("erp_product_category", "append") /\ UNCHANGED product_info

\* the end of main: the success line, or `except: print; raise`
main_end ==
    /\ pc \in {"end", "except"}
    /\ outcome' = IF pc = "except" THEN "raised" ELSE "completed"
    /\ pc' = "idle"
    /\ first' = IF run = "first"
                THEN [silver |-> silver, failed |-> failed, today |-> today]
                ELSE first
    /\ UNCHANGED <<bronze, silver, storage, today, run, invoked, failed,
                   connected, product_info>>

\* the script is started again on the same raw zone
rerun ==
    /\ pc = "idle"
    /\ run = "first"
    /\ run' = "second"
    /\ pc' = "import"
    /\ UNCHANGED <<bronze, silver, storage, today, invoked, failed, outcome,
                   connected, product_info, first>>

\* A day passes between the two runs.  A run reads the clock once
\* (load_erp_customer_az12), so a tick inside a run is not told apart from
\* one before or after it.
tick ==
    /\ pc = "idle"
    /\ run = "first"
    /\ today < StartDay + MaxTicks
    /\ today' = today + 1
    /\ UNCHANGED <<bronze, silver, storage, pc, run, invoked, failed, outcome,
                   connected, product_info, first>>

Next ==
    \/ module_fetch
    \/ load_crm_customer_info
    \/ load_crm_product_info
    \/ load_crm_sales_details
    \/ load_erp_customer_az12
    \/ load_erp_location_a101
    \/ load_erp_product_category
    \/ main_end
    \/ rerun
    \/ tick

Spec == Init /\ [][Next]_vars

TypeOK ==
    /\ pc \in Tables \cup {"import", "end", "except", "idle"}
    /\ run \in {"first", "second"}
    /\ outcome \in {"none", "completed", "raised"}
    /\ failed \subseteq Tables
    /\ \A n \in Tables : silver[n].ddl \in {"declared", "pandas"}

---------------------------------------------------------------------------
(* Properties.                                                             *)

SalesOut == silver.crm_sales_details.rows

CustomerOut == silver.crm_customer_info.rows

ProductOut == silver.crm_product_info.rows

Az12Out == silver.erp_customer_az12.rows

\* C1 as stated: every loaded sales row has sls_sales = sls_quantity *
\* |sls_price| with none of the three missing (a product with a missing
\* quantity is missing, and equals no amount).
C1_SalesInvariantAsStated ==
    \A i \in 1..Len(SalesOut) :
        LET r == SalesOut[i]
        IN  /\ ~isna(r.sls_sales)
            /\ ~isna(r.sls_price)
            /\ ~isna(r.sls_quantity)
            /\ r.sls_sales[1] = r.sls_quantity[1] * Abs(r.sls_price[1])

\* C1 amended: every loaded sales row has sls_sales and sls_price present and
\* sls_sales = sls_quantity * |sls_price|, a missing quantity counting as 0.
C1_SalesInvariant ==
    \A i \in 1..Len(SalesOut) :
        LET r == SalesOut[i]
        IN  /\ ~isna(r.sls_sales)
            /\ ~isna(r.sls_price)
            /\ r.sls_sales[1] = fillna(r.sls_quantity, 0)[1] * Abs(r.sls_price[1])

\* A row with a negative price and no amount was reconciled and loaded.
C1_Witness ==
    /\ bronze.crm_sales_details =
         <<[sls_quantity |-> Some(2), sls_price |-> Some(-5), sls_sales |-> None]>>
    /\ SalesOut =
         <<[sls_quantity |-> Some(2), sls_price |-> Some(5), sls_sales |-> Some(10)]>>

\* C2 as stated: no two loaded customers share a cust_id and no two loaded
\* products share the prd_key of the output (the product code).
C2_UniqueKeysAsStated ==
    /\ \A i, j \in 1..Len(CustomerOut) :
          CustomerOut[i].cust_id = CustomerOut[j].cust_id => i = j
    /\ \A i, j \in 1..Len(ProductOut) :
          ProductOut[i].prd_key = ProductOut[j].prd_key => i = j

\* C2 amended: no two loaded customers share a cust_id (products are not
\* deduplicated).
C2_UniqueCustomers ==
    \A i, j \in 1..Len(CustomerOut) :
        CustomerOut[i].cust_id = CustomerOut[j].cust_id => i = j

\* Two raw customers with the same key were loaded as one.
C2_Witness ==
    /\ Len(bronze.crm_customer_info) = 2
    /\ ~isna(bronze.crm_customer_info[1].cust_id)
    /\ bronze.crm_customer_info[1].cust_id = bronze.crm_customer_info[2].cust_id
    /\ Len(CustomerOut) = 1

\* C3: no row of a loaded table has a missing business key (cust_id, prd_key,
\* cid, cid, id).
C3_NoMissingKey ==
    /\ \A i \in 1..Len(CustomerOut) : ~isna(CustomerOut[i].cust_id)
    /\ \A i \in 1..Len(ProductOut) : ~isna(ProductOut[i].prd_key)
    /\ \A i \in 1..Len(Az12Out) : ~isna(Az12Out[i].cid)
    /\ \A i \in 1..Len(silver.erp_location_a101.rows) :
          ~isna(silver.erp_location_a101.rows[i].cid)
    /\ \A i \in 1..Len(silver.erp_product_category.rows) :
          ~isna(silver.erp_product_category.rows[i].id)

\* The validity windows of the loaded products, for a given notion of
\* lineage: rows of one lineage are in start date order (missing last), the
\* end date of each is the start date of the next row of its lineage minus
\* one day, and the last row of a lineage has no end date.
SCDWindow(lineage) ==
    \A i \in 1..Len(ProductOut) :
        LET later == {j \in (i + 1)..Len(ProductOut) : lineage[j] = lineage[i]}
        IN  IF later = {} THEN isna(ProductOut[i].prd_end_dt)
            ELSE LET n == CHOOSE j \in later : \A k \in later : j <= k
                     s == ProductOut[i].prd_start_dt
                     t == ProductOut[n].prd_start_dt
                 IN  /\ ProductOut[i].prd_end_dt = minus_one_day(t)
                     /\ isna(s) => isna(t)
                     /\ ~isna(s) /\ ~isna(t) => s[1] <= t[1]

\* C4 as stated: the windows hold with the lineage being the product code,
\* the prd_key of the output.
C4_WindowByProductCodeAsStated ==
    SCDWindow([i \in 1..Len(ProductOut) |-> ProductOut[i].prd_key])

\* C4 amended: the windows hold with the lineage being the raw prd_key
\* (category prefix and product code together), whatever end date the raw
\* rows carried.
C4_WindowByRawKey ==
    ProductOut = without_index(product_info) =>
        SCDWindow([i \in 1..Len(ProductOut) |->
                     bronze.crm_product_info[product_info[i].idx].prd_key])

\* The spec's example, fetched newest first and with raw end dates: the
\* 2021 row ends on 2021-12-31 and the 2022 row is open.
C4_Witness ==
    /\ bronze.crm_product_info =
         <<[prd_key |-> Some(KeyAABB), prd_start_dt |-> Some(<<2022, 1, 1>>),
            prd_end_dt |-> Some(<<2030, 1, 1>>)],
           [prd_key |-> Some(KeyAABB), prd_start_dt |-> Some(<<2021, 1, 1>>),
            prd_end_dt |-> Some(<<2030, 1, 1>>)]>>
    /\ Len(ProductOut) = 2
    /\ ProductOut = without_index(product_info)
    /\ ProductOut[1].prd_start_dt = Some(DayNumber(2021, 1, 1))
    /\ ProductOut[1].prd_end_dt = Some(DayNumber(2021, 12, 31))
    /\ ProductOut[2].prd_end_dt = NaT

\* C5: a loaded customer carries the create date of a raw record of its key,
\* and no raw record of that key has a later one; a raw record with a valid
\* date is never beaten by one without.  Every raw key is loaded.
C5_LatestWins ==
    LET raw == bronze.crm_customer_info
    IN  /\ \A i \in 1..Len(CustomerOut) :
              LET r == CustomerOut[i]
              IN  /\ \E k \in 1..Len(raw) :
                        /\ raw[k].cust_id = r.cust_id
                        /\ to_datetime(raw[k].cst_create_date) = r.cst_create_date
                  /\ \A k \in 1..Len(raw) :
                        LET d == to_datetime(raw[k].cst_create_date)
                        IN  raw[k].cust_id = r.cust_id /\ ~isna(d) =>
                              /\ ~isna(r.cst_create_date)
                              /\ r.cst_create_date[1] >= d[1]
        /\ CustomerOut # <<>> =>
             \A k \in 1..Len(raw) :
                 ~isna(raw[k].cust_id) =>
                     \E i \in 1..Len(CustomerOut) : CustomerOut[i].cust_id = raw[k].cust_id

\* The spec's example: of 2024-01-01 and 2024-06-01 the later one survived.
C5_Witness ==
    /\ Len(bronze.crm_customer_info) = 2
    /\ bronze.crm_customer_info[1].cust_id = Some(1)
    /\ bronze.crm_customer_info[2].cust_id = Some(1)
    /\ bronze.crm_customer_info[1].cst_create_date = Jan2024
    /\ bronze.crm_customer_info[2].cst_create_date = Jun2024
    /\ Len(CustomerOut) = 1
    /\ CustomerOut[1].cst_create_date = Some(DayNumber(2024, 6, 1))

\* C6: every loaded gender (cst_gndr, gen) is Male, Female or Unknown.
C6_GenderCanonical ==
    /\ \A i \in 1..Len(CustomerOut) :
          CustomerOut[i].cst_gndr \in {Some(Male), Some(Female), Some(Unknown)}
    /\ \A i \in 1..Len(Az12Out) :
          Az12Out[i].gen \in {Some(Male), Some(Female), Some(Unknown)}

\* C7: main never leaves its try block by an exception of a load function:
\* the functions called so far are a prefix of the load order, and when main
\* has ended all six were called, once each and in order.
C7_AllInvoked ==
    /\ pc # "except"
    /\ Len(invoked) <= Len(Order)
    /\ \A i \in 1..Len(invoked) : invoked[i] = Order[i]
    /\ pc \in {"end", "idle"} => invoked = Order

\* A run ended in which the first and the third load failed.
C7_Witness ==
    /\ pc = "idle"
    /\ failed = {"crm_customer_info", "crm_sales_details"}
    /\ invoked = Order

\* C8: with no connection (every read fails) main never reports success,
\* and ends by raising.
C8_FatalWhenDown ==
    storage = "down" =>
        /\ outcome # "completed"
        /\ pc = "idle" => outcome = "raised"

\* C9: a silver table is changed only by its truncate and the append of the
\* full cleansed record set: each step leaves every table as it was,
\* truncated or fully loaded, and the table itself stays the one declared.
C9_TruncateAppendOnly ==
    [][\A n \in Tables :
          /\ silver'[n].ddl = silver[n].ddl
          /\ \/ silver'[n].rows = silver[n].rows
             \/ silver'[n].rows = <<>>
             \/ silver'[n].rows = Cleansed(n, bronze, today)]_vars

\* both runs have ended without a failure
TwoCleanRuns ==
    run = "second" /\ pc = "idle" /\ failed = {} /\ first.failed = {}

SameContents == \A n \in Tables : silver[n].rows = first.silver[n].rows

\* C10 as stated: after two runs without failure on the same raw zone every
\* table holds what it held after the first.
C10_IdempotentAsStated == TwoCleanRuns => SameContents

\* a raw birth date that was in the future on the first run's day and is
\* not on the second's
BirthDateReached ==
    \E i \in 1..Len(bronze.erp_customer_az12) :
        LET d == to_datetime(bronze.erp_customer_az12[i].bdate)
        IN  ~isna(d) /\ first.today < d[1] /\ d[1] <= today

\* C10 amended: the same, provided no raw birth date lies after the first
\* run's day and on or before the second's.
C10_Idempotent == TwoCleanRuns /\ ~BirthDateReached => SameContents

\* Two clean runs, with a deduplicated customer and a blanked birth date.
C10_Witness ==
    /\ TwoCleanRuns
    /\ \E i \in 1..Len(bronze.erp_customer_az12) :
          /\ bronze.erp_customer_az12[i].bdate = BornTomorrow
          /\ ~isna(bronze.erp_customer_az12[i].cid)
    /\ \E i \in 1..Len(Az12Out) : isna(Az12Out[i].bdate)
    /\ Len(bronze.crm_customer_info) = 2
    /\ Len(CustomerOut) = 1

\* C11 as stated: a sales row fetched with sls_quantity = 2, sls_price missing
\* and sls_sales = 20 is loaded with sls_price = 10, the fetched amount
\* divided by the quantity.
C11_MissingPriceRecomputed ==
    \A i \in 1..Len(SalesOut) :
        bronze.crm_sales_details[i] =
            [sls_quantity |-> Some(2), sls_price |-> None, sls_sales |-> Some(20)]
        => SalesOut[i].sls_price = Some(10)

===========================================================================
